---------------------------- MODULE Spec2Model ----------------------------
(***************************************************************************)
(* Careud TPMS decoder (src/devices/tpms_careud.c).                        *)
(*                                                                         *)
(* The model follows the two functions of the file:                        *)
(*   tpms_careud_callback  inverts the bit buffer, searches the preamble   *)
(*                         55 55 a9 again and again, and calls the decoder *)
(*                         16 bits after every match;                      *)
(*   tpms_careud_decode    Manchester-decodes 72 bits, checks length, sync *)
(*                         word and CRC-16, undoes the XOR obfuscation and *)
(*                         emits one data record.                          *)
(* A bit buffer row is a sequence of bits (0/1); bits_per_row[0] is its    *)
(* length.  Bytes are integers 0..255, C index i is TLA+ index i + 1.      *)
(***************************************************************************)
EXTENDS Integers, Sequences, FiniteSets, TLC

VARIABLES
    pc,         \* callback position: "start", "loop", "done" ("idle": not running)
    bitbuffer,  \* row 0 of the caller's bitbuffer_t
    bitpos,     \* unsigned bitpos of tpms_careud_callback
    ret,        \* int ret of tpms_careud_callback
    events,     \* int events of tpms_careud_callback
    result,     \* value returned by tpms_careud_callback
    output,     \* records handed to decoder_output_data, in order
    orig,       \* history: the buffer as the caller passed it
    attempts,   \* history: one record per call of tpms_careud_decode
    ppc,        \* decode position: "window", "copied", "descrambled" ("idle")
    mem,        \* locals of tpms_careud_decode: b (window bytes) and d
    win0,       \* history: the window bytes before memcpy
    napply,     \* how many times the XOR cascade has run on mem.d
    data        \* record built by data_make from mem.d, or <<>>

vars == <<pc, bitbuffer, bitpos, ret, events, result, output, orig, attempts,
          ppc, mem, win0, napply, data>>

scanVars == <<pc, bitbuffer, bitpos, ret, events, result, output, orig, attempts>>
decodeVars == <<ppc, mem, win0, napply, data>>

---------------------------------------------------------------------------
(* Integer arithmetic of the C code. *)

Pow2(n) == 2 ^ n

RECURSIVE Xor(_, _)
Xor(x, y) ==
    IF x = 0 THEN y
    ELSE IF y = 0 THEN x
    ELSE (((x % 2) + (y % 2)) % 2) + 2 * Xor(x \div 2, y \div 2)

RECURSIVE BitAnd(_, _)
BitAnd(x, y) ==
    IF x = 0 \/ y = 0 THEN 0
    ELSE ((x % 2) * (y % 2)) + 2 * BitAnd(x \div 2, y \div 2)

Byte == 0..255

\* bit i (0-based, MSB first) of a bit row; bits past the row's length read 0
\* (packet_bits is zero-initialised)
Bit(bits, i) == IF i < Len(bits) THEN bits[i + 1] ELSE 0

\* byte n (0-based) of a bit row
ByteAt(bits, n) ==
    128 * Bit(bits, 8 * n) + 64 * Bit(bits, 8 * n + 1) + 32 * Bit(bits, 8 * n + 2)
    + 16 * Bit(bits, 8 * n + 3) + 8 * Bit(bits, 8 * n + 4) + 4 * Bit(bits, 8 * n + 5)
    + 2 * Bit(bits, 8 * n + 6) + Bit(bits, 8 * n + 7)

\* the bits of a byte sequence, MSB first
BytesToBits(bytes) ==
    [k \in 1..(8 * Len(bytes)) |->
        (bytes[((k - 1) \div 8) + 1] \div Pow2(7 - ((k - 1) % 8))) % 2]

---------------------------------------------------------------------------
(* Host framework: bit buffer and CRC. *)

\* bitbuffer_invert: every bit of the row flipped, the bit count kept
bitbuffer_invert(bits) == [k \in 1..Len(bits) |-> 1 - bits[k]]

MatchAt(bits, p, pattern) ==
    /\ p + Len(pattern) <= Len(bits)
    /\ \A k \in 1..Len(pattern) : bits[p + k] = pattern[k]

\* bitbuffer_search: the first position >= start where the pattern matches,
\* the row's bit count when there is none
bitbuffer_search(bits, start, pattern) ==
    LET hits == {p \in start..Len(bits) : MatchAt(bits, p, pattern)}
    IN  IF hits = {} THEN Len(bits)
        ELSE CHOOSE p \in hits : \A q \in hits : p <= q

\* bitbuffer_manchester_decode: pairs of raw bits from start on, one logical
\* bit (the pair's second bit) per transition pair; stops after max bits, at
\* the end of the row, or at a pair that is no transition
RECURSIVE manchester_from(_, _, _, _)
manchester_from(bits, ipos, max, out) ==
    IF Len(out) >= max \/ ipos + 2 > Len(bits) THEN out
    ELSE IF bits[ipos + 1] = bits[ipos + 2] THEN out
    ELSE manchester_from(bits, ipos + 2, max, Append(out, bits[ipos + 2]))

bitbuffer_manchester_decode(bits, start, max) == manchester_from(bits, start, max, <<>>)

\* crc16: MSB first, no reflection, no final XOR, 16-bit register
RECURSIVE crc16_bits(_, _, _)
crc16_bits(remainder, polynomial, bit) ==
    IF bit = 8 THEN remainder
    ELSE IF remainder >= 32768
         THEN crc16_bits(Xor((remainder * 2) % 65536, polynomial), polynomial, bit + 1)
         ELSE crc16_bits((remainder * 2) % 65536, polynomial, bit + 1)

RECURSIVE crc16_bytes(_, _, _, _, _)
crc16_bytes(message, nBytes, polynomial, remainder, byte) ==
    IF byte = nBytes THEN remainder
    ELSE crc16_bytes(message, nBytes, polynomial,
                     crc16_bits(Xor(remainder, message[byte + 1] * 256), polynomial, 0),
                     byte + 1)

crc16(message, nBytes, polynomial, init) == crc16_bytes(message, nBytes, polynomial, init, 0)

\* return codes of a decode function (host framework's r_device.h)
DECODE_FAIL_MIC == -3
DECODE_FAIL_SANITY == -4

---------------------------------------------------------------------------
(* tpms_careud_decode *)

PACKET_BITS == 72
SYNC_WORD == 6607      \* 0x19cf
CRC_POLY == 32773      \* 0x8005
CRC_INIT == 0
PRESSURE_DIV == 64
TEMPERATURE_OFFSET == 55

\* slip: the length tested in bytes (9) instead of bits (72)
too_short_bytes(packet_bits) == Len(packet_bits) < 9

\* packet_bits.bits_per_row[0] < 72
too_short(packet_bits) == Len(packet_bits) < PACKET_BITS

\* b = packet_bits.bb[0]: the nine bytes of the decoded row
window_bytes(packet_bits) == [n \in 1..9 |-> ByteAt(packet_bits, n - 1)]

\* (b[0]<<8 | b[1]) != 0x19cf
sync_mismatch(b) == (b[1] * 256) + b[2] # SYNC_WORD

\* slip: the CRC taken over the five payload bytes only
packet_crc_payload(b) == crc16(SubSeq(b, 3, 7), 5, CRC_POLY, CRC_INIT)

\* crc16(&b[2], 7, 0x8005, 0x0000)
packet_crc(b) == crc16(SubSeq(b, 3, 9), 7, CRC_POLY, CRC_INIT)

\* memcpy(d, b+2, sizeof(d))
memcpy_d(m) == [m EXCEPT !.d = SubSeq(m.b, 3, 7)]

\* for(int i = 1; i < 5; i++) d[i]^=d[0];
RECURSIVE xor_pass1(_, _)
xor_pass1(m, i) ==
    IF i < 5 THEN xor_pass1([m EXCEPT !.d[i + 1] = Xor(m.d[i + 1], m.d[1])], i + 1)
    ELSE m

\* slip: the second loop stops before index 0 (i > 0)
RECURSIVE xor_pass2_gt0(_, _)
xor_pass2_gt0(m, i) ==
    IF i > 0 THEN xor_pass2_gt0([m EXCEPT !.d[i + 1] = Xor(m.d[i + 1], m.d[5])], i - 1)
    ELSE m

\* for(int i = 3; i >= 0; i--) d[i]^=d[4];
RECURSIVE xor_pass2(_, _)
xor_pass2(m, i) ==
    IF i >= 0 THEN xor_pass2([m EXCEPT !.d[i + 1] = Xor(m.d[i + 1], m.d[5])], i - 1)
    ELSE m

\* slip: the second loop left out
descramble_pass1_only(m) == xor_pass1(m, 1)

descramble(m) == xor_pass2(xor_pass1(m, 1), 3)

\* slip: the two id bytes exchanged
id_of_swapped(d) == (d[5] * 256) + d[2]

\* id = (d[1] << 8) | d[4]
id_of(d) == (d[2] * 256) + d[5]

\* flags = d[0] & 0x0f
flags_of(d) == BitAnd(d[1], 15)

temperature_of(d) == d[3]

pressure_of(d) == d[4]

HexDigits == <<"0", "1", "2", "3", "4", "5", "6", "7",
               "8", "9", "a", "b", "c", "d", "e", "f">>

\* sprintf(id_str, "%04x", id): the characters of id_str
sprintf_04x(id) ==
    <<HexDigits[((id \div 4096) % 16) + 1], HexDigits[((id \div 256) % 16) + 1],
      HexDigits[((id \div 16) % 16) + 1], HexDigits[(id % 16) + 1]>>

\* slip: the battery flag read from bit 0x01
battery_of_bit0(flags) == IF BitAnd(flags, 1) # 0 THEN "OK" ELSE "LOW"

battery_of(flags) == IF BitAnd(flags, 2) # 0 THEN "OK" ELSE "LOW"

pressure_loss_of(flags) == IF BitAnd(flags, 8) # 0 THEN "OK" ELSE "ALARM"

\* data_make(...): pressure_BAR is the float pressure / 64, kept as the exact
\* fraction num / den (a byte over 64 is exact in binary floating point)
data_make(d) ==
    [model         |-> "Careud",
     type          |-> "TPMS",
     id            |-> sprintf_04x(id_of(d)),
     flags         |-> flags_of(d),
     battery       |-> battery_of(flags_of(d)),
     pressure_BAR  |-> [num |-> pressure_of(d), den |-> PRESSURE_DIV],
     pressure_loss |-> pressure_loss_of(flags_of(d)),
     temperature_C |-> temperature_of(d) - TEMPERATURE_OFFSET,
     mic           |-> "CRC"]

\* One call of tpms_careud_decode: its return value, what it handed to
\* decoder_output_data, and its locals when it returned.
tpms_careud_decode(bits, start) ==
    LET packet_bits == bitbuffer_manchester_decode(bits, start, PACKET_BITS)
        m0 == [b |-> window_bytes(packet_bits), d |-> <<>>]
        fail(code) == [ret |-> code, out |-> <<>>, mem |-> m0, packet_bits |-> packet_bits]
    IN  IF too_short(packet_bits) THEN fail(DECODE_FAIL_SANITY)
        ELSE IF sync_mismatch(m0.b) THEN fail(DECODE_FAIL_SANITY)
        ELSE IF packet_crc(m0.b) # 0 THEN fail(DECODE_FAIL_MIC)
        ELSE LET m == descramble(memcpy_d(m0))
             IN  [ret |-> 1, out |-> <<data_make(m.d)>>, mem |-> m,
                  packet_bits |-> packet_bits]

---------------------------------------------------------------------------
(* tpms_careud_callback *)

preamble_pattern == BytesToBits(<<85, 85, 169>>)    \* 0x55 0x55 0xa9

PREAMBLE_BITS == 24
MIN_BITS == 80
DECODE_OFFSET == 16
BITPOS_STEP == 2

\* bitbuffer_search(bitbuffer, 0, bitpos, preamble_pattern, 24)
search_preamble(bits, start) ==
    bitbuffer_search(bits, start, SubSeq(preamble_pattern, 1, PREAMBLE_BITS))

\* the loop condition: ... + 80 <= bitbuffer->bits_per_row[0]
loop_continues(bits, found) == found + MIN_BITS <= Len(bits)

\* slip: the cursor advanced by a packet length
next_bitpos_packet(found) == found + PACKET_BITS

\* slip: the cursor not advanced
next_bitpos_stuck(found) == found

\* bitpos += 2
next_bitpos(found) == found + BITPOS_STEP

\* slip: the last attempt's code dropped from the return value
callback_return_events(ev, r) == ev

\* return events > 0 ? events : ret
callback_return(ev, r) == IF ev > 0 THEN ev ELSE r

\* slip: the decoder inverting the row it reads
buffer_after_decode_inverted(bits) == bitbuffer_invert(bits)

\* the caller's row after a call of tpms_careud_decode, which only reads it
buffer_after_decode(bits) == bits

\* bitbuffer_invert(bitbuffer), before the loop
Invert ==
    /\ pc = "start"
    /\ bitbuffer' = bitbuffer_invert(bitbuffer)
    /\ pc' = "loop"
    /\ UNCHANGED <<bitpos, ret, events, result, output, orig, attempts>>
    /\ UNCHANGED decodeVars

\* one iteration of the while loop: search, decode at the match, advance
Attempt ==
    /\ pc = "loop"
    /\ LET found == search_preamble(bitbuffer, bitpos)
       IN  /\ loop_continues(bitbuffer, found)
           /\ LET r == tpms_careud_decode(bitbuffer, found + DECODE_OFFSET)
              IN  /\ ret' = r.ret
                  /\ events' = IF r.ret > 0 THEN events + r.ret ELSE events
                  /\ output' = output \o r.out
                  /\ attempts' = Append(attempts,
                                    [pos |-> found, start |-> bitpos, ret |-> r.ret,
                                     packet_bits |-> r.packet_bits,
                                     b |-> r.mem.b, d |-> r.mem.d, out |-> r.out])
           /\ bitpos' = next_bitpos(found)
    /\ bitbuffer' = buffer_after_decode(bitbuffer)
    /\ UNCHANGED <<pc, result, orig>>
    /\ UNCHANGED decodeVars

\* the loop condition fails: the callback returns
Return ==
    /\ pc = "loop"
    /\ ~loop_continues(bitbuffer, search_preamble(bitbuffer, bitpos))
    /\ bitpos' = search_preamble(bitbuffer, bitpos)
    /\ result' = callback_return(events, ret)
    /\ pc' = "done"
    /\ UNCHANGED <<bitbuffer, ret, events, output, orig, attempts>>
    /\ UNCHANGED decodeVars

---------------------------------------------------------------------------
(* The sensor: what it puts on the air (the file's data layout comment). *)

\* Manchester line code matching the decoder: 0 -> 10, 1 -> 01
manchester_encode(bits) ==
    [k \in 1..(2 * Len(bits)) |->
        IF k % 2 = 1 THEN 1 - bits[(k + 1) \div 2] ELSE bits[k \div 2]]

\* the sensor's obfuscation of the five payload bytes e
scramble(e) ==
    <<Xor(e[5], e[1]), Xor(e[2], e[1]), Xor(e[3], e[1]), Xor(e[4], e[1]), e[1]>>

\* SS SS KF II TT PP II CC CC for transmitted payload t
frame_bytes(t) ==
    LET crc == crc16(t, 5, CRC_POLY, CRC_INIT)
    IN  <<SYNC_WORD \div 256, SYNC_WORD % 256>> \o t \o <<crc \div 256, crc % 256>>

\* a frame as received: intact, or damaged in one place
damaged(f, kind) ==
    CASE kind = "good"      -> f
      [] kind = "badsync"   -> [f EXCEPT ![2] = Xor(f[2], 1)]
      [] kind = "badcrc"    -> [f EXCEPT ![9] = Xor(f[9], 1)]
      [] kind = "flip"      -> [f EXCEPT ![3] = Xor(f[3], 128)]
      [] kind = "violation" -> f

\* 55 55, then the Manchester code of the nine bytes (its first byte is a9)
frame_bits(f, kind) ==
    LET raw == BytesToBits(<<85, 85>>) \o manchester_encode(BytesToBits(damaged(f, kind)))
    IN  IF kind = "violation" THEN [raw EXCEPT ![100] = 1 - raw[100]] ELSE raw

Zeros(n) == [k \in 1..n |-> 0]

\* 16 bits of 55 55, then two raw bits for each of the 72 packet bits
FRAME_RAW_BITS == DECODE_OFFSET + (2 * PACKET_BITS)

\* payloads as the decoder reports them
ScenarioPayload == <<10, 18, 110, 64, 52>>     \* 0a 12 6e 40 34

PlainPayloads ==
    {ScenarioPayload, <<0, 0, 0, 0, 0>>, <<245, 255, 0, 255, 255>>,
     <<160, 0, 255, 1, 1>>, <<7, 171, 55, 128, 205>>}

Kinds == {"good", "badsync", "badcrc", "flip", "violation"}

MaxPrefix == 2
MaxSuffix == 1
MaxCut == 2

\* how many raw bits of a frame are lost at the end of the buffer
Cuts == (0..MaxCut) \cup {80 - c : c \in 0..MaxCut} \cup {81 + c : c \in 0..MaxCut}

\* one frame, after some idle bits, possibly cut short
SingleFrames ==
    {Zeros(pre) \o SubSeq(frame_bits(frame_bytes(scramble(e)), kind), 1, FRAME_RAW_BITS - cut)
        \o Zeros(suf) :
        e \in PlainPayloads, kind \in Kinds, pre \in 0..MaxPrefix,
        cut \in Cuts, suf \in 0..MaxSuffix}

\* a stray preamble, gap bits, then a frame (gap 2: preambles at 0 and 26)
StrayThenFrame ==
    {SubSeq(preamble_pattern, 1, PREAMBLE_BITS) \o Zeros(gap)
        \o frame_bits(frame_bytes(scramble(e)), kind) :
        e \in PlainPayloads, kind \in {"good", "badcrc"}, gap \in {0, 2, 3}}

\* two frames back to back
TwoFrames ==
    {frame_bits(frame_bytes(scramble(e1)), k1) \o frame_bits(frame_bytes(scramble(e2)), k2) :
        e1 \in {ScenarioPayload}, e2 \in PlainPayloads, k1 \in {"good", "badcrc"},
        k2 \in {"good", "badsync"}}

\* no preamble at all, and the empty row
NoFrame == {Zeros(n) : n \in {0, 79, 80, 200}}

\* the rows the demodulator hands over: the inverse of what the callback scans
Buffers ==
    {bitbuffer_invert(air) : air \in SingleFrames \cup StrayThenFrame \cup TwoFrames \cup NoFrame}

NoMem == [b |-> <<>>, d |-> <<>>]

Init ==
    /\ pc = "start"
    /\ bitbuffer \in Buffers
    /\ orig = bitbuffer
    /\ bitpos = 0
    /\ ret = 0
    /\ events = 0
    /\ result = 0
    /\ output = <<>>
    /\ attempts = <<>>
    /\ ppc = "idle"
    /\ mem = NoMem
    /\ win0 = <<>>
    /\ napply = 0
    /\ data = <<>>

Next == Invert \/ Attempt \/ Return

Spec == Init /\ [][Next]_vars

\* the part of a loop iteration that moves the cursor
AttemptCursor ==
    /\ pc = "loop"
    /\ loop_continues(bitbuffer, search_preamble(bitbuffer, bitpos))
    /\ bitpos' = next_bitpos(search_preamble(bitbuffer, bitpos))

\* The callback is synchronous code on one thread: the statement it stands
\* at is executed.  (Fairness of the loop iteration is stated on its cursor
\* part; within Spec a step that moves the cursor is an Attempt step.)
FairSpec == Spec /\ WF_vars(Invert) /\ WF_bitpos(AttemptCursor) /\ WF_vars(Return)

---------------------------------------------------------------------------
(* tpms_careud_decode after its checks, step by step, on accepted windows. *)

MaxApply == 3

BasePayloads == {<<0, 0, 0, 0, 0>>, <<165, 90, 60, 195, 255>>, <<15, 240, 1, 128, 0>>}

\* transmitted payloads: a base payload with one byte taking every value
TxPayloads == {[s EXCEPT ![i] = v] : s \in BasePayloads, i \in 1..5, v \in Byte}

\* windows that pass the sync and CRC checks
Windows == {frame_bytes(t) : t \in TxPayloads}

DecodeInit ==
    /\ pc = "idle"
    /\ bitbuffer = <<>>
    /\ orig = <<>>
    /\ bitpos = 0
    /\ ret = 0
    /\ events = 0
    /\ result = 0
    /\ output = <<>>
    /\ attempts = <<>>
    /\ ppc = "window"
    /\ win0 \in Windows
    /\ mem = [b |-> win0, d |-> <<>>]
    /\ napply = 0
    /\ data = <<>>

\* memcpy(d, b+2, sizeof(d))
CopyPayload ==
    /\ ppc = "window"
    /\ mem' = memcpy_d(mem)
    /\ ppc' = "copied"
    /\ UNCHANGED <<win0, napply, data>>
    /\ UNCHANGED scanVars

\* the two XOR loops, run on d (the decoder runs them once)
Descramble ==
    /\ ppc \in {"copied", "descrambled"}
    /\ napply < MaxApply
    /\ mem' = descramble(mem)
    /\ napply' = napply + 1
    /\ ppc' = "descrambled"
    /\ UNCHANGED <<win0, data>>
    /\ UNCHANGED scanVars

\* field extraction and data_make
MakeData ==
    /\ ppc = "descrambled"
    /\ data' = data_make(mem.d)
    /\ ppc' = "emitted"
    /\ UNCHANGED <<mem, win0, napply>>
    /\ UNCHANGED scanVars

DecodeNext == CopyPayload \/ Descramble \/ MakeData

SpecDecode == DecodeInit /\ [][DecodeNext]_vars

---------------------------------------------------------------------------
(* Properties of the callback (specification Spec). *)

\* 0x55 0x55 0xa9, bit by bit
PreambleLiteral ==
    <<0, 1, 0, 1, 0, 1, 0, 1,  0, 1, 0, 1, 0, 1, 0, 1,  1, 0, 1, 0, 1, 0, 0, 1>>

\* the preamble stands at bit position p of the row
PreambleAt(bits, p) ==
    /\ p + 24 <= Len(bits)
    /\ SubSeq(bits, p + 1, p + 24) = PreambleLiteral

\* positions at which the preamble stands with at least n bits left in the row
Candidates(bits, n) == {p \in 0..Len(bits) : PreambleAt(bits, p) /\ p + n <= Len(bits)}

AttemptedAt(p) == {k \in 1..Len(attempts) : attempts[k].pos = p}

LastAttempt == attempts[Len(attempts)]

\* C1 (as stated): the value returned by the callback is the number of
\* readings emitted during the call, so it is never negative, and it is 0
\* whenever no window was accepted, also after rejected attempts.
C1_ReturnIsEmittedCount ==
    pc = "done" => (result = Len(output) /\ result >= 0)

\* C1 (amended): the callback returns the number of readings emitted when at
\* least one was emitted; when none was emitted it returns 0 if no decode
\* attempt was made, and otherwise the negative rejection code of the last
\* attempt (DECODE_FAIL_SANITY or DECODE_FAIL_MIC).
C1_ReturnValue ==
    /\ events = Len(output)
    /\ pc = "done" =>
        /\ Len(output) > 0 => result = Len(output)
        /\ (Len(output) = 0 /\ attempts = <<>>) => result = 0
        /\ (Len(output) = 0 /\ attempts # <<>>) =>
              /\ result = LastAttempt.ret
              /\ result \in {DECODE_FAIL_SANITY, DECODE_FAIL_MIC}
              /\ result < 0

C1_Witness ==
    /\ pc = "done"
    /\ attempts # <<>>
    /\ output = <<>>
    /\ result = DECODE_FAIL_MIC

\* the outcome the three checks give for a decoded row w
ExpectedOutcome(w) ==
    IF Len(w) < 72 THEN DECODE_FAIL_SANITY
    ELSE IF <<ByteAt(w, 0), ByteAt(w, 1)>> # <<25, 207>> THEN DECODE_FAIL_SANITY
    ELSE IF crc16(<<ByteAt(w, 2), ByteAt(w, 3), ByteAt(w, 4), ByteAt(w, 5),
                    ByteAt(w, 6), ByteAt(w, 7), ByteAt(w, 8)>>, 7, 32773, 0) # 0
         THEN DECODE_FAIL_MIC
    ELSE 1

\* C2: a decode attempt's outcome is decided by three checks in order:
\* fewer than 72 decoded bits -> SanityFail; first two bytes not 19 cf ->
\* SanityFail; CRC-16 over the 7 transmitted bytes after the sync nonzero ->
\* IntegrityFail; otherwise exactly one reading is emitted.  A failed attempt
\* emits nothing and does not stop the scan: when the callback returns, no
\* candidate is left after the last attempt.
C2_AttemptOutcome ==
    /\ \A k \in 1..Len(attempts) :
        LET a == attempts[k]
        IN  /\ a.packet_bits = bitbuffer_manchester_decode(bitbuffer, a.pos + 16, 72)
            /\ a.ret = ExpectedOutcome(a.packet_bits)
            /\ Len(a.out) = (IF a.ret = 1 THEN 1 ELSE 0)
    /\ (pc = "done" /\ attempts # <<>>) =>
          \A p \in Candidates(bitbuffer, 80) : p <= LastAttempt.pos

C2_Witness ==
    \E k \in 1..(Len(attempts) - 1) :
        /\ attempts[k].ret = DECODE_FAIL_MIC
        /\ attempts[k + 1].ret = 1
        /\ Len(output) = 1

\* the frame of the end-to-end scenario, as the demodulator hands it over
ScenarioBuffer ==
    bitbuffer_invert(frame_bits(frame_bytes(scramble(ScenarioPayload)), "good"))

ScenarioDone == pc = "done" /\ orig = ScenarioBuffer

\* C3 (as stated): the scenario frame (payload 0a 12 6e 40 34 before
\* scrambling) yields exactly one reading with id "1234", flags 0x0A,
\* batteryLow false, pressure 1.00 bar, pressureLossAlarm true, 55 C.
C3_ScenarioAsClaimed ==
    ScenarioDone =>
        /\ result = 1
        /\ Len(output) = 1
        /\ output[1].id = <<"1", "2", "3", "4">>
        /\ output[1].flags = 10
        /\ output[1].battery = "OK"
        /\ output[1].pressure_BAR = [num |-> 64, den |-> 64]
        /\ output[1].pressure_loss = "ALARM"
        /\ output[1].temperature_C = 55

\* C3 (amended): the scenario frame yields exactly one reading with id
\* "1234", flags 0x0A, batteryLow false (battery "OK"), pressure 1.00 bar,
\* pressureLossAlarm false (pressure_loss "OK": flag bit 0x08 is set), 55 C.
C3_Scenario ==
    ScenarioDone =>
        /\ result = 1
        /\ Len(output) = 1
        /\ output[1].id = <<"1", "2", "3", "4">>
        /\ output[1].flags = 10
        /\ output[1].battery = "OK"
        /\ output[1].pressure_BAR = [num |-> 64, den |-> 64]
        /\ output[1].pressure_loss = "OK"
        /\ output[1].temperature_C = 55

C3_Witness == ScenarioDone /\ Len(attempts) = 1 /\ Len(output) = 1

\* C6: every preamble occurrence at p with p + 80 <= bit length gets exactly
\* one decode attempt, attempts go in strictly increasing order of p, and
\* the search after an attempt at p starts at p + 2 (so preambles at 0 and
\* 26 are both attempted).
C6_ScanOrder ==
    pc # "start" =>
        /\ \A k \in 1..Len(attempts) :
              /\ attempts[k].pos \in Candidates(bitbuffer, 80)
              /\ attempts[k].start = (IF k = 1 THEN 0 ELSE attempts[k - 1].pos + 2)
              /\ k > 1 => attempts[k - 1].pos < attempts[k].pos
        /\ (pc = "loop" /\ attempts # <<>>) => bitpos = LastAttempt.pos + 2
        /\ \A p \in Candidates(bitbuffer, 80) :
              (pc = "done" \/ p < bitpos) => Cardinality(AttemptedAt(p)) = 1

C6_Witness ==
    /\ pc = "done"
    /\ Len(attempts) = 2
    /\ attempts[1].pos = 0
    /\ attempts[2].pos = 26

\* C7: the callback changes the caller's buffer exactly once, by the
\* inversion before the first search; no decode attempt changes it, so from
\* then on, and on return, the buffer is the bitwise inverse of the buffer
\* passed in, with the same bit count.
C7_InvertedOnce ==
    /\ pc = "start" => bitbuffer = orig
    /\ pc \in {"loop", "done"} =>
          /\ Len(bitbuffer) = Len(orig)
          /\ \A k \in 1..Len(orig) : bitbuffer[k] = 1 - orig[k]

C7_Witness ==
    /\ pc = "done"
    /\ Len(attempts) = 2
    /\ attempts[1].ret < 0
    /\ attempts[2].ret = 1
    /\ bitbuffer # orig

\* C10: a reading is emitted for a preamble at p only if p + 160 <= bit
\* length; candidates with 80 <= length - p < 160 are still attempted, and
\* each such attempt is rejected with SanityFail and emits nothing.
C10_ShortCandidates ==
    /\ \A k \in 1..Len(attempts) :
        LET a == attempts[k]
            left == Len(bitbuffer) - a.pos
        IN  /\ a.out # <<>> => left >= 160
            /\ left < 160 => (left >= 80 /\ a.ret = DECODE_FAIL_SANITY /\ a.out = <<>>)
    /\ pc = "done" =>
          \A p \in Candidates(bitbuffer, 80) : AttemptedAt(p) # {}

C10_Witness ==
    /\ pc = "done"
    /\ \E k \in 1..Len(attempts) :
          /\ Len(bitbuffer) - attempts[k].pos = 159
          /\ attempts[k].ret = DECODE_FAIL_SANITY
    /\ output = <<>>

\* C8: processing a reception event always terminates: from one loop
\* iteration to the next the cursor moves forward by at least 2 bits and
\* never past the row's end, the number of iterations never exceeds half the
\* bit length, leaving the loop means returning, and the callback eventually
\* returns.
C8_Terminates ==
    /\ [][(pc = "loop" /\ pc' = "loop") =>
            (bitpos' >= bitpos + 2 /\ bitpos' <= Len(bitbuffer))]_vars
    /\ [][(pc = "loop" /\ pc' # "loop") => pc' = "done"]_vars
    /\ [](2 * Len(attempts) <= Len(bitbuffer))
    /\ <>(pc = "done")

C8_Witness ==
    /\ pc = "done"
    /\ Len(attempts) = 2
    /\ bitpos = Len(bitbuffer)

---------------------------------------------------------------------------
(* Properties of the decoder's payload handling (specification SpecDecode). *)

\* bit k (value 2^k) of byte x
BitOf(x, k) == (x \div Pow2(k)) % 2

\* XOR of two bytes, bit by bit
ByteXor(x, y) ==
    LET s(k) == ((BitOf(x, k) + BitOf(y, k)) % 2) * Pow2(k)
    IN  s(0) + s(1) + s(2) + s(3) + s(4) + s(5) + s(6) + s(7)

\* the payload bytes of the window, as transmitted
Transmitted == SubSeq(win0, 3, 7)

\* value of one lowercase hexadecimal character, -1 for any other
HexValue(c) ==
    CASE c = "0" -> 0 [] c = "1" -> 1 [] c = "2" -> 2 [] c = "3" -> 3
      [] c = "4" -> 4 [] c = "5" -> 5 [] c = "6" -> 6 [] c = "7" -> 7
      [] c = "8" -> 8 [] c = "9" -> 9 [] c = "a" -> 10 [] c = "b" -> 11
      [] c = "c" -> 12 [] c = "d" -> 13 [] c = "e" -> 14 [] c = "f" -> 15
      [] OTHER -> -1

\* a record without its flags field
WithoutFlags(r) == [r EXCEPT !.flags = 0]

\* C4: every reading is this function of the descrambled bytes d[0..4]:
\* id = (d[1] << 8) | d[4] as four lowercase hex characters; flags = d[0] &
\* 0x0F, the high nibble of d[0] influencing nothing; battery LOW iff bit
\* 0x02 is clear; pressure loss ALARM iff bit 0x08 is clear; bits 0x01 and
\* 0x04 influence nothing but flags; temperature = d[2] - 55 in [-55, 200];
\* pressure * 64 = d[3] in [0, 255].
C4_Fields ==
    ppc = "emitted" =>
        LET d == mem.d
        IN  /\ Len(data.id) = 4
            /\ \A k \in 1..4 : HexValue(data.id[k]) >= 0
            /\ (4096 * HexValue(data.id[1])) + (256 * HexValue(data.id[2]))
                 + (16 * HexValue(data.id[3])) + HexValue(data.id[4]) = (256 * d[2]) + d[5]
            /\ data.flags = d[1] % 16
            /\ data.battery = (IF BitOf(d[1], 1) = 0 THEN "LOW" ELSE "OK")
            /\ data.pressure_loss = (IF BitOf(d[1], 3) = 0 THEN "ALARM" ELSE "OK")
            /\ data.temperature_C = d[3] - 55
            /\ data.temperature_C \in -55..200
            /\ data.pressure_BAR.den = 64
            /\ data.pressure_BAR.num = d[4]
            /\ data.pressure_BAR.num \in 0..255
            /\ \A h \in 0..15 : data_make([d EXCEPT ![1] = (16 * h) + (d[1] % 16)]) = data
            /\ \A f \in {1, 4, 5} :
                  WithoutFlags(data_make([d EXCEPT ![1] = ByteXor(d[1], f)])) = WithoutFlags(data)

C4_Witness ==
    /\ ppc = "emitted"
    /\ napply = 1
    /\ mem.d[1] = 248
    /\ data.flags = 8
    /\ data.battery = "LOW"
    /\ data.pressure_loss = "OK"

\* C5: the descrambler's result is that of the in-place two-pass cascade:
\* pass 1 XORs d[0] into d[1..4]; pass 2 XORs the pass-1-updated d[4] into
\* d[3], d[2], d[1], d[0].  It depends on the five input bytes only, and the
\* window it was copied from is unchanged.
C5_Cascade ==
    napply = 1 =>
        LET t  == Transmitted
            p1 == <<t[1], ByteXor(t[2], t[1]), ByteXor(t[3], t[1]),
                    ByteXor(t[4], t[1]), ByteXor(t[5], t[1])>>
        IN  /\ mem.d = <<ByteXor(p1[1], p1[5]), ByteXor(p1[2], p1[5]),
                         ByteXor(p1[3], p1[5]), ByteXor(p1[4], p1[5]), p1[5]>>
            /\ mem.d[1] = t[5]
            /\ mem.b = win0

C5_Witness ==
    /\ napply = 1
    /\ Transmitted = <<165, 90, 60, 195, 255>>
    /\ mem.d = <<255, 165, 195, 60, 90>>
    /\ mem.b = win0

\* C9: descrambling three times returns the original payload (so it is a
\* bijection, and its inverse, the forward scrambling, is descrambling
\* twice); descrambling twice returns the original only when d[0] and d[4]
\* are both zero.
C9_ThreeFold ==
    LET t == Transmitted
    IN  /\ napply = 3 => mem.d = t
        /\ napply = 2 => ((mem.d = t) <=> (t[1] = 0 /\ t[5] = 0))
        /\ napply = 1 => scramble(mem.d) = t
        /\ napply = 2 => scramble(t) = mem.d

C9_Witness ==
    /\ napply = 3
    /\ ppc = "descrambled"
    /\ Transmitted = <<165, 90, 60, 195, 255>>
    /\ mem.d = Transmitted

===========================================================================
